---- MODULE Spec2Model ----
(***************************************************************************)
(* The trading data store of src/database.py (class TradingDatabase): the  *)
(* four SQLite tables, the write path, the query path and the performance  *)
(* analyzer, as a state machine over the rows of the database file.        *)
(*                                                                         *)
(* Time.  The wall clock advances in slots; a calendar day has SlotsPerDay *)
(* slots.  SQLite's CURRENT_TIMESTAMP is the UTC time as the text          *)
(* 'YYYY-MM-DD HH:MM:SS'; Python's datetime.now() is the local time (UTC   *)
(* plus the zone offset tz) and isoformat() prints it as                   *)
(* 'YYYY-MM-DDTHH:MM:SS[.ffffff]'.  A text is a sequence of numbers        *)
(* compared as SQLite compares TEXT (memcmp): a date text is <<day>>, a    *)
(* time text <<day, separator, slot>> or <<day, separator, slot, micro>>.  *)
(***************************************************************************)
EXTENDS Integers, Sequences, FiniteSets, TLC

VARIABLES
    now,                 \* the wall clock: slots since the epoch, UTC
    tz,                  \* the zone offset of the process, in slots
    trading_logs,        \* table trading_logs, in rowid order
    actual_trades,       \* table actual_trades, in rowid order
    portfolio_snapshots, \* table portfolio_snapshots: a set of rows
    snapshot_seq,        \* sqlite_sequence of portfolio_snapshots (AUTOINCREMENT)
    self_reflections,    \* table self_reflections, in rowid order
    last_upsert,         \* history: date -> arguments of the last save_portfolio_snapshot
    log_calls,           \* history: the arguments of the save_analysis_log calls, in order
    stats_call,          \* a get_trading_stats call in progress: its place and its locals
    ret                  \* the last step: the operation, its arguments and what it returned

vars == <<now, tz, trading_logs, actual_trades, portfolio_snapshots,
          snapshot_seq, self_reflections, last_upsert, log_calls, stats_call, ret>>

--------------------------------------------------------------------------
(* Bounds of the model *)

SlotsPerDay == 3
MaxTicks == 4
MaxTrades == 2
MaxLogs == 2
MaxDaysBack == 1
MaxSnapshotWrites == 3
MaxReflections == 1
MaxFileLines == 3

(* Program constants *)

SepSpace == 32          \* ' ' between date and time in CURRENT_TIMESTAMP
SepT == 84              \* 'T' between date and time in isoformat()
InitialCapital == 1000000

None == <<>>            \* Python's None and SQL NULL where a text is expected: as
                        \* the empty text, it is false in a Python condition

--------------------------------------------------------------------------
(* Clock and text *)

Epoch == (MaxDaysBack + 1) * SlotsPerDay
TzOffsets == {0 - 2, 0, 2}
Micros == {0, 1}        \* datetime.now().microsecond: zero or not

DayOf(t) == t \div SlotsPerDay
SlotOf(t) == t % SlotsPerDay

\* CURRENT_TIMESTAMP at instant t: UTC, 'YYYY-MM-DD HH:MM:SS'
CurrentTimestamp(t) == <<DayOf(t), SepSpace, SlotOf(t)>>

\* datetime.now() at instant t in zone z, then (- timedelta(days=d)).isoformat():
\* the fraction is printed only when the microsecond is not 0
IsoFormat(t, us) ==
    IF us = 0 THEN <<DayOf(t), SepT, SlotOf(t)>>
              ELSE <<DayOf(t), SepT, SlotOf(t), us>>

\* strftime('%Y-%m-%d'): the calendar date of an instant
StrfDate(t) == <<DayOf(t)>>

\* The column compared as it is stored, without DATE()
SqlDate_Undated(text) == text

\* SQLite's DATE(): the calendar date of a timestamp text
SqlDate(text) == <<text[1]>>

\* TEXT comparison (BINARY collation): bytewise, a proper prefix is smaller
RECURSIVE TextLT(_, _)
TextLT(a, b) ==
    IF b = <<>> THEN FALSE
    ELSE IF a = <<>> THEN TRUE
    ELSE IF Head(a) # Head(b) THEN Head(a) < Head(b)
    ELSE TextLT(Tail(a), Tail(b))

TextLE(a, b) == a = b \/ TextLT(a, b)

SqlBetween(x, lo, hi) == TextLE(lo, x) /\ TextLE(x, hi)

\* dict.get(key, default)
Get(d, k, default) == IF k \in DOMAIN d THEN d[k] ELSE default

\* Python bool bound to a BOOLEAN column
SqlBool(b) == IF b THEN 1 ELSE 0

\* The rows of a sequence, as a set
Rows(table) == {table[i] : i \in 1..Len(table)}

\* The first n entries of a list (LIMIT n, n >= 0)
Limit(rows, n) == SubSeq(rows, 1, IF n < Len(rows) THEN n ELSE Len(rows))

\* ORDER BY created_at: every order of the rows that the sort key allows
\* (SQL leaves the order of rows with equal keys open)
Perms(S) ==
    {p \in [1..Cardinality(S) -> S] :
        \A i, j \in 1..Cardinality(S) : i # j => p[i] # p[j]}

OrderByCreatedAsc(S) ==
    {p \in Perms(S) :
        \A i \in 1..(Cardinality(S) - 1) : TextLE(p[i].created_at, p[i+1].created_at)}

OrderByCreatedDesc(S) ==
    {p \in Perms(S) :
        \A i \in 1..(Cardinality(S) - 1) : TextLE(p[i+1].created_at, p[i].created_at)}

--------------------------------------------------------------------------
(* json.dumps and json.loads.  A JSON text is a sequence of tokens: the      *)
(* brackets { } [ ], a member's key (3000 + its place in JsonKeys), a string *)
(* (2000 + its place in JsonStrings), a number (1000 + the number), the      *)
(* string of an isoformat() time without fraction (4000 + the instant) and   *)
(* null (110).                                                               *)

JsonKeys ==
    <<"current_price", "investment_status", "technical_indicators",
      "fear_greed_index", "krw_balance", "btc_balance", "total_portfolio_value",
      "rsi", "decision", "reason", "confidence",
      "market_data", "ai_analysis", "timestamp">>

JsonStrings == <<"", "buy", "hold", "sell", "dip", "flat", "high", "low">>

IndexIn(table, x) == CHOOSE i \in 1..Len(table) : table[i] = x

\* What a key of the payloads holds
KeyKind(k) ==
    IF k \in {"investment_status", "technical_indicators", "market_data",
              "ai_analysis"} THEN "dict"
    ELSE IF k = "fear_greed_index" THEN "list"
    ELSE IF k = "timestamp" THEN "time"
    ELSE IF k \in {"decision", "reason", "confidence"} THEN "str"
    ELSE "num"

RECURSIVE DumpsDict(_)
RECURSIVE DumpsMembers(_, _)

DumpsValue(k, v) ==
    IF KeyKind(k) = "dict" THEN DumpsDict(v)
    ELSE IF KeyKind(k) = "list" THEN <<91>> \o [i \in 1..Len(v) |-> 1000 + v[i]] \o <<93>>
    ELSE IF KeyKind(k) = "str" THEN <<2000 + IndexIn(JsonStrings, v)>>
    ELSE IF KeyKind(k) = "time"
    THEN (IF v = None THEN <<110>> ELSE <<4000 + v[1] * SlotsPerDay + v[3]>>)
    ELSE <<1000 + v>>

DumpsMembers(d, keys) ==
    IF keys = <<>> THEN <<>>
    ELSE (IF Head(keys) \in DOMAIN d
          THEN <<3000 + IndexIn(JsonKeys, Head(keys))>> \o DumpsValue(Head(keys), d[Head(keys)])
          ELSE <<>>) \o DumpsMembers(d, Tail(keys))

\* json.dumps(d, ensure_ascii=False) of a dict
DumpsDict(d) == <<123>> \o DumpsMembers(d, JsonKeys) \o <<125>>

ParseFail == [ok |-> FALSE, kind |-> "none", val |-> <<>>, rest |-> <<>>]

RECURSIVE ParseValue(_)
RECURSIVE ParseMembers(_, _)
RECURSIVE ParseItems(_, _)

ParseValue(t) ==
    IF t = <<>> THEN ParseFail
    ELSE IF Head(t) = 123 THEN ParseMembers(Tail(t), <<>>)
    ELSE IF Head(t) = 91 THEN ParseItems(Tail(t), <<>>)
    ELSE IF Head(t) \in 2001..(2000 + Len(JsonStrings))
    THEN [ok |-> TRUE, kind |-> "str", val |-> JsonStrings[Head(t) - 2000], rest |-> Tail(t)]
    ELSE IF Head(t) \in 1000..1999
    THEN [ok |-> TRUE, kind |-> "num", val |-> Head(t) - 1000, rest |-> Tail(t)]
    ELSE IF Head(t) \in 4000..4999
    THEN [ok |-> TRUE, kind |-> "str", val |-> IsoFormat(Head(t) - 4000, 0),
          rest |-> Tail(t)]
    ELSE IF Head(t) = 110
    THEN [ok |-> TRUE, kind |-> "null", val |-> None, rest |-> Tail(t)]
    ELSE ParseFail

ParseMembers(t, acc) ==
    IF t = <<>> THEN ParseFail
    ELSE IF Head(t) = 125
    THEN [ok |-> TRUE, kind |-> "dict", val |-> acc, rest |-> Tail(t)]
    ELSE IF Head(t) \in 3001..(3000 + Len(JsonKeys))
    THEN LET k == JsonKeys[Head(t) - 3000]
             p == ParseValue(Tail(t))
         IN IF p.ok
            THEN ParseMembers(p.rest,
                     [x \in DOMAIN acc \cup {k} |-> IF x = k THEN p.val ELSE acc[x]])
            ELSE ParseFail
    ELSE ParseFail

ParseItems(t, acc) ==
    IF t = <<>> THEN ParseFail
    ELSE IF Head(t) = 93
    THEN [ok |-> TRUE, kind |-> "list", val |-> acc, rest |-> Tail(t)]
    ELSE LET p == ParseValue(t)
         IN IF p.ok THEN ParseItems(p.rest, Append(acc, p.val)) ELSE ParseFail

\* json.loads(text): the value and its kind, or not ok (the call raises) for a
\* text that is no JSON document
JsonLoads(text) ==
    LET p == ParseValue(text)
    IN IF p.ok /\ p.rest = <<>> THEN p ELSE ParseFail

--------------------------------------------------------------------------
(* Initial state: a database file with the four tables and no rows *)

Init ==
    /\ now = Epoch
    /\ tz \in TzOffsets
    /\ trading_logs = <<>>
    /\ actual_trades = <<>>
    /\ portfolio_snapshots = {}
    /\ snapshot_seq = 0
    /\ self_reflections = <<>>
    /\ last_upsert = <<>>
    /\ log_calls = <<>>
    /\ stats_call = [pc |-> "idle"]
    /\ ret = [op |-> "init_database"]

\* The schema made anew: DROP TABLE before CREATE TABLE
InitDatabase_Recreate ==
    /\ trading_logs' = <<>>
    /\ actual_trades' = <<>>
    /\ portfolio_snapshots' = {}
    /\ snapshot_seq' = 0
    /\ self_reflections' = <<>>
    /\ ret' = [op |-> "init_database"]
    /\ UNCHANGED <<stats_call, now, tz, last_upsert, log_calls>>

\* init_database: CREATE TABLE IF NOT EXISTS on four tables that exist
InitDatabase ==
    /\ ret' = [op |-> "init_database"]
    /\ UNCHANGED <<stats_call, now, tz, trading_logs, actual_trades, portfolio_snapshots,
                   snapshot_seq, self_reflections, last_upsert, log_calls>>

\* The clock moves on by one slot
Tick ==
    /\ now < Epoch + MaxTicks
    /\ now' = now + 1
    /\ ret' = [op |-> "tick"]
    /\ UNCHANGED <<stats_call, tz, trading_logs, actual_trades, portfolio_snapshots,
                   snapshot_seq, self_reflections, last_upsert, log_calls>>

--------------------------------------------------------------------------
(* Write path: save_analysis_log *)

\* The row INSERT INTO trading_logs writes, with the id and the creation time
\* the engine assigns
AnalysisLogRow(log_id, market_data, ai_analysis, timestamp, analysis_type) ==
    LET investment_status == Get(market_data, "investment_status", <<>>)
    IN [id |-> log_id,
        timestamp |-> timestamp,
        current_price |-> Get(market_data, "current_price", 0),
        krw_balance |-> Get(investment_status, "krw_balance", 0),
        btc_balance |-> Get(investment_status, "btc_balance", 0),
        total_portfolio_value |-> Get(investment_status, "total_portfolio_value", 0),
        investment_status_json |-> DumpsDict(investment_status),
        ai_decision |-> Get(ai_analysis, "decision", ""),
        ai_reason |-> Get(ai_analysis, "reason", ""),
        ai_confidence |-> Get(ai_analysis, "confidence", ""),
        ai_analysis_full_json |-> DumpsDict(ai_analysis),
        market_data_json |-> DumpsDict(market_data),
        analysis_type |-> analysis_type,
        created_at |-> CurrentTimestamp(now)]

SaveAnalysisLog(market_data, ai_analysis, timestamp, analysis_type) ==
    /\ Len(trading_logs) < MaxLogs
    /\ LET log_id == Len(trading_logs) + 1
           row == AnalysisLogRow(log_id, market_data, ai_analysis, timestamp,
                                 analysis_type)
       IN /\ trading_logs' = Append(trading_logs, row)
          /\ log_calls' = Append(log_calls,
                                 [market_data |-> market_data,
                                  ai_analysis |-> ai_analysis,
                                  timestamp |-> timestamp])
          /\ ret' = [op |-> "save_analysis_log", id |-> log_id]
    /\ UNCHANGED <<stats_call, now, tz, actual_trades, portfolio_snapshots, snapshot_seq,
                   self_reflections, last_upsert>>

--------------------------------------------------------------------------
(* Write path: save_trade *)

SaveTrade(trade_type, price, amount, total_value, fee, order_id, success, error_message, trade_time, us) ==
    /\ Len(actual_trades) < MaxTrades
    /\ LET trade_timestamp ==
               IF trade_time # None THEN trade_time ELSE IsoFormat(now + tz, us)
           trade_id == Len(actual_trades) + 1
           row == [id |-> trade_id,
                   timestamp |-> trade_timestamp,
                   trade_type |-> trade_type,
                   price |-> price,
                   amount |-> amount,
                   total_value |-> total_value,
                   fee |-> fee,
                   order_id |-> order_id,
                   success |-> SqlBool(success),
                   error_message |-> error_message,
                   created_at |-> CurrentTimestamp(now)]
       IN /\ actual_trades' = Append(actual_trades, row)
          /\ ret' = [op |-> "save_trade", id |-> trade_id]
    /\ UNCHANGED <<stats_call, now, tz, trading_logs, portfolio_snapshots, snapshot_seq,
                   self_reflections, last_upsert, log_calls>>

--------------------------------------------------------------------------
(* Write path: save_portfolio_snapshot and save_reflection *)

\* INSERT OR REPLACE without the REPLACE: the row is added beside the old one
ReplaceInto_InsertOnly(table, row) == table \cup {row}

\* INSERT OR REPLACE INTO portfolio_snapshots: date is UNIQUE, so the rows in
\* conflict with the new row are deleted before it is inserted
ReplaceInto(table, row) == {r \in table : r.date # row.date} \cup {row}

SavePortfolioSnapshot(date, krw_balance, btc_balance, btc_avg_price, total_value, profit_loss, profit_loss_percent) ==
    /\ snapshot_seq < MaxSnapshotWrites
    /\ LET row == [id |-> snapshot_seq + 1,
                   date |-> date,
                   krw_balance |-> krw_balance,
                   btc_balance |-> btc_balance,
                   btc_avg_price |-> btc_avg_price,
                   total_value |-> total_value,
                   profit_loss |-> profit_loss,
                   profit_loss_percent |-> profit_loss_percent,
                   created_at |-> CurrentTimestamp(now)]
       IN /\ portfolio_snapshots' = ReplaceInto(portfolio_snapshots, row)
          /\ snapshot_seq' = snapshot_seq + 1
          /\ last_upsert' =
                 [d \in DOMAIN last_upsert \cup {date} |->
                     IF d = date
                     THEN [krw_balance |-> krw_balance,
                           btc_balance |-> btc_balance,
                           btc_avg_price |-> btc_avg_price,
                           total_value |-> total_value,
                           profit_loss |-> profit_loss,
                           profit_loss_percent |-> profit_loss_percent]
                     ELSE last_upsert[d]]
          /\ ret' = [op |-> "save_portfolio_snapshot", date |-> date]
    /\ UNCHANGED <<stats_call, now, tz, trading_logs, actual_trades, self_reflections, log_calls>>

SaveReflection(reflection_data, us) ==
    /\ Len(self_reflections) < MaxReflections
    /\ LET reflection_id == Len(self_reflections) + 1
           row ==
             [id |-> reflection_id,
              reflection_date |->
                  Get(reflection_data, "reflection_date", IsoFormat(now + tz, us)),
              analysis_period_start |-> Get(reflection_data, "analysis_period_start", <<>>),
              analysis_period_end |-> Get(reflection_data, "analysis_period_end", <<>>),
              total_trades_analyzed |-> Get(reflection_data, "total_trades_analyzed", 0),
              successful_trades |-> Get(reflection_data, "successful_trades", 0),
              failed_trades |-> Get(reflection_data, "failed_trades", 0),
              total_profit_loss |-> Get(reflection_data, "total_profit_loss", 0),
              win_rate |-> Get(reflection_data, "win_rate", 0),
              market_conditions_then |-> Get(reflection_data, "market_conditions_then", <<>>),
              market_conditions_now |-> Get(reflection_data, "market_conditions_now", <<>>),
              reflection_content |-> Get(reflection_data, "reflection_content", <<>>),
              lessons_learned |-> Get(reflection_data, "lessons_learned", <<>>),
              improvement_suggestions |->
                  Get(reflection_data, "improvement_suggestions", <<>>),
              confidence_adjustment |-> Get(reflection_data, "confidence_adjustment", 0),
              strategy_modifications |-> Get(reflection_data, "strategy_modifications", <<>>),
              created_at |-> CurrentTimestamp(now)]
       IN /\ self_reflections' = Append(self_reflections, row)
          /\ ret' = [op |-> "save_reflection", id |-> reflection_id]
    /\ UNCHANGED <<stats_call, now, tz, trading_logs, actual_trades, portfolio_snapshots,
                   snapshot_seq, last_upsert, log_calls>>

--------------------------------------------------------------------------
(* Query path: get_portfolio_history *)

\* ORDER BY date DESC: date is UNIQUE, so one order
OrderByDateDesc(S) ==
    {p \in Perms(S) :
        \A i \in 1..(Cardinality(S) - 1) : TextLE(p[i+1].date, p[i].date)}

GetPortfolioHistory(days) ==
    /\ \E rows \in OrderByDateDesc(portfolio_snapshots) :
           ret' = [op |-> "get_portfolio_history", days |-> days,
                   rows |-> Limit(rows, days)]
    /\ UNCHANGED <<stats_call, now, tz, trading_logs, actual_trades, portfolio_snapshots,
                   snapshot_seq, self_reflections, last_upsert, log_calls>>

--------------------------------------------------------------------------
(* Query path: get_recent_logs, get_logs_by_date_range, get_recent_reflections *)

GetRecentLogs(limit) ==
    /\ \E rows \in OrderByCreatedDesc(Rows(trading_logs)) :
           ret' = [op |-> "get_recent_logs", limit |-> limit, rows |-> Limit(rows, limit)]
    /\ UNCHANGED <<stats_call, now, tz, trading_logs, actual_trades, portfolio_snapshots,
                   snapshot_seq, self_reflections, last_upsert, log_calls>>

GetLogsByDateRange(start_date, end_date) ==
    /\ LET selected == {r \in Rows(trading_logs) :
                           SqlBetween(r.created_at, start_date, end_date)}
       IN \E rows \in OrderByCreatedAsc(selected) :
              ret' = [op |-> "get_logs_by_date_range", start_date |-> start_date,
                      end_date |-> end_date, rows |-> rows]
    /\ UNCHANGED <<stats_call, now, tz, trading_logs, actual_trades, portfolio_snapshots,
                   snapshot_seq, self_reflections, last_upsert, log_calls>>

GetRecentReflections(limit) ==
    /\ \E rows \in OrderByCreatedDesc(Rows(self_reflections)) :
           ret' = [op |-> "get_recent_reflections", limit |-> limit,
                   rows |-> Limit(rows, limit)]
    /\ UNCHANGED <<stats_call, now, tz, trading_logs, actual_trades, portfolio_snapshots,
                   snapshot_seq, self_reflections, last_upsert, log_calls>>

--------------------------------------------------------------------------
(* Query path: get_market_context *)

\* WHERE timestamp < ?
ContextCandidates_Before(table, timestamp) ==
    {r \in Rows(table) : TextLT(r.timestamp, timestamp)}

\* WHERE timestamp <= ?
ContextCandidates(table, timestamp) ==
    {r \in Rows(table) : TextLE(r.timestamp, timestamp)}

\* ORDER BY timestamp DESC LIMIT 1: a row no other row comes before
FirstByTimestampDesc(S) ==
    {r \in S : \A o \in S : TextLE(o.timestamp, r.timestamp)}

\* What the function returns for the fetched row
MarketContextOf(log) ==
    LET market_data == JsonLoads(log.market_data_json)
    IN IF market_data.ok /\ market_data.kind = "dict"
       THEN [price |-> log.current_price,
             technical_indicators |-> Get(market_data.val, "technical_indicators", <<>>),
             fear_greed |-> Get(market_data.val, "fear_greed_index", <<>>),
             timestamp |-> log.timestamp]
       ELSE [price |-> log.current_price, timestamp |-> log.timestamp]

GetMarketContext(timestamp) ==
    /\ LET candidates == ContextCandidates(trading_logs, timestamp)
       IN IF candidates = {}
          THEN ret' = [op |-> "get_market_context", timestamp |-> timestamp,
                       result |-> <<>>]
          ELSE \E row \in FirstByTimestampDesc(candidates) :
                   ret' = [op |-> "get_market_context", timestamp |-> timestamp,
                           result |-> MarketContextOf(row)]
    /\ UNCHANGED <<stats_call, now, tz, trading_logs, actual_trades, portfolio_snapshots,
                   snapshot_seq, self_reflections, last_upsert, log_calls>>

--------------------------------------------------------------------------
(* Query path: get_trades_by_date *)

GetTradesByDate(start_date, end_date) ==
    /\ LET selected ==
               IF end_date # None
               THEN {r \in Rows(actual_trades) :
                        SqlBetween(SqlDate(r.created_at), start_date, end_date)}
               ELSE {r \in Rows(actual_trades) : SqlDate(r.created_at) = start_date}
       IN \E rows \in OrderByCreatedDesc(selected) :
              ret' = [op |-> "get_trades_by_date", start_date |-> start_date,
                      end_date |-> end_date, rows |-> rows]
    /\ UNCHANGED <<stats_call, now, tz, trading_logs, actual_trades, portfolio_snapshots,
                   snapshot_seq, self_reflections, last_upsert, log_calls>>

--------------------------------------------------------------------------
(* Performance analyzer: get_trading_stats *)

\* SUM(fee) ... WHERE success = 1, then "or 0": 0 for NULL (no such row)
RECURSIVE SumFee(_)
SumFee(table) ==
    IF table = <<>> THEN 0
    ELSE (IF Head(table).success = 1 THEN Head(table).fee ELSE 0) + SumFee(Tail(table))

\* The count without WHERE success = 1
SuccessfulTrades_AllRows(table) == Rows(table)

\* WHERE success = 1 on actual_trades
SuccessfulTrades(table) == {r \in Rows(table) : r.success = 1}

\* SELECT trade_type, COUNT(*) ... GROUP BY trade_type, then dict(cursor.fetchall())
TradeCounts(S) ==
    [k \in {r.trade_type : r \in S} |-> Cardinality({r \in S : r.trade_type = k})]

\* The labels without their COUNT(*)
DecisionCounts_OnePerLabel(S) == [k \in {r.ai_decision : r \in S} |-> 1]

\* SELECT ai_decision, COUNT(*) FROM trading_logs GROUP BY ai_decision, then dict(...)
DecisionCounts(S) ==
    [k \in {r.ai_decision : r \in S} |-> Cardinality({r \in S : r.ai_decision = k})]

TradingStats(trades, logs) ==
    LET total_trades == Cardinality(SuccessfulTrades(trades))
        trade_counts == TradeCounts(SuccessfulTrades(trades))
        total_fee == SumFee(trades)
        ai_decisions == DecisionCounts(Rows(logs))
    IN [total_trades |-> total_trades,
        buy_count |-> Get(trade_counts, "buy", 0),
        sell_count |-> Get(trade_counts, "sell", 0),
        total_fee |-> total_fee,
        ai_decisions |-> ai_decisions]

GetTradingStats ==
    /\ ret' = [op |-> "get_trading_stats",
               result |-> TradingStats(actual_trades, trading_logs)]
    /\ UNCHANGED <<stats_call, now, tz, trading_logs, actual_trades, portfolio_snapshots,
                   snapshot_seq, self_reflections, last_upsert, log_calls>>

\* get_trading_stats statement by statement, as it runs beside the writers of
\* other processes: the connection opens no transaction for a SELECT, so
\* each of the four reads the file as it is when the statement runs
StatsSelectTotalTrades ==
    /\ stats_call.pc = "idle"
    /\ stats_call' = [pc |-> "trade_counts",
                      total_trades |-> Cardinality(SuccessfulTrades(actual_trades))]
    /\ UNCHANGED <<now, tz, trading_logs, actual_trades, portfolio_snapshots,
                   snapshot_seq, self_reflections, last_upsert, log_calls, ret>>

StatsSelectTradeCounts ==
    /\ stats_call.pc = "trade_counts"
    /\ stats_call' = [pc |-> "total_fee",
                      total_trades |-> stats_call.total_trades,
                      trade_counts |-> TradeCounts(SuccessfulTrades(actual_trades))]
    /\ UNCHANGED <<now, tz, trading_logs, actual_trades, portfolio_snapshots,
                   snapshot_seq, self_reflections, last_upsert, log_calls, ret>>

StatsSelectTotalFee ==
    /\ stats_call.pc = "total_fee"
    /\ stats_call' = [pc |-> "ai_decisions",
                      total_trades |-> stats_call.total_trades,
                      trade_counts |-> stats_call.trade_counts,
                      total_fee |-> SumFee(actual_trades)]
    /\ UNCHANGED <<now, tz, trading_logs, actual_trades, portfolio_snapshots,
                   snapshot_seq, self_reflections, last_upsert, log_calls, ret>>

StatsSelectDecisions ==
    /\ stats_call.pc = "ai_decisions"
    /\ stats_call' = [pc |-> "idle"]
    /\ ret' = [op |-> "get_trading_stats",
               result |-> [total_trades |-> stats_call.total_trades,
                           buy_count |-> Get(stats_call.trade_counts, "buy", 0),
                           sell_count |-> Get(stats_call.trade_counts, "sell", 0),
                           total_fee |-> stats_call.total_fee,
                           ai_decisions |-> DecisionCounts(Rows(trading_logs))]]
    /\ UNCHANGED <<now, tz, trading_logs, actual_trades, portfolio_snapshots,
                   snapshot_seq, self_reflections, last_upsert, log_calls>>

--------------------------------------------------------------------------
(* Performance analyzer: analyze_trading_performance *)

\* A fetched row of SELECT * FROM actual_trades: a tuple in column order;
\* Col(trade, i) is Python's trade[i]
TradeTuple(r) ==
    <<r.id, r.timestamp, r.trade_type, r.price, r.amount, r.total_value, r.fee,
      r.order_id, r.success, r.error_message, r.created_at>>

Col(trade, i) == trade[i + 1]

\* Python's true division, kept exact: a number is a fraction [num, den], den > 0
Frac(n, d) == [num |-> n, den |-> d]
FracAdd(a, b) == [num |-> a.num * b.den + b.num * a.den, den |-> a.den * b.den]
FracSub(a, b) == [num |-> a.num * b.den - b.num * a.den, den |-> a.den * b.den]
FracEq(a, b) == a.num * b.den = b.num * a.den

\* One pass of the loop "for trade in trades"
ReplayStep(acc, trade) ==
    IF Col(trade, 2) = "buy"
    THEN LET btc_bought == Frac(Col(trade, 4), Col(trade, 3))
         IN [acc EXCEPT !.btc_balance = FracAdd(@, btc_bought),
                        !.krw_balance = @ - Col(trade, 4)]
    ELSE IF Col(trade, 2) = "sell"
    THEN LET btc_sold == Col(trade, 4)
             profit == Col(trade, 5) - (btc_sold * Col(trade, 3))
         IN [acc EXCEPT !.btc_balance = FracSub(@, Frac(btc_sold, 1)),
                        !.krw_balance = @ + Col(trade, 5),
                        !.total_profit_loss = @ + profit,
                        !.successful_trades = IF profit > 0 THEN @ + 1 ELSE @,
                        !.failed_trades = IF profit > 0 THEN @ ELSE @ + 1]
    ELSE acc

RECURSIVE Replay(_, _)
Replay(acc, trades) ==
    IF trades = <<>> THEN acc
    ELSE Replay(ReplayStep(acc, Head(trades)), Tail(trades))

ReplayStart ==
    [total_profit_loss |-> 0, successful_trades |-> 0, failed_trades |-> 0,
     btc_balance |-> Frac(0, 1), krw_balance |-> InitialCapital]

\* The rows of SELECT * FROM actual_trades WHERE created_at BETWEEN ? AND ?
\* AND success = 1, the bounds being the isoformat() texts of the window
WindowRows(table, start_date, end_date, us) ==
    {r \in Rows(table) :
        /\ SqlBetween(r.created_at, IsoFormat(start_date, us), IsoFormat(end_date, us))
        /\ r.success = 1}

\* What the function returns for the fetched list trades
PerformanceResult(trades, start_date, end_date) ==
    IF trades = <<>>
    THEN [total_trades |-> 0,
          total_profit_loss |-> 0,
          win_rate |-> Frac(0, 1),
          successful_trades |-> 0,
          failed_trades |-> 0,
          analysis_period |->
              StrfDate(start_date) \o <<32, 116, 111, 32>> \o StrfDate(end_date)]
    ELSE LET acc == Replay(ReplayStart, trades)
             total_trades == Len(trades)
             win_rate == IF total_trades > 0
                         THEN Frac(acc.successful_trades * 100, total_trades)
                         ELSE Frac(0, 1)
         IN [total_trades |-> total_trades,
             successful_trades |-> acc.successful_trades,
             failed_trades |-> acc.failed_trades,
             total_profit_loss |-> acc.total_profit_loss,
             win_rate |-> win_rate,
             analysis_period_start |-> StrfDate(start_date),
             analysis_period_end |-> StrfDate(end_date),
             trades_data |-> trades]

AnalyzeTradingPerformance(days_back, us) ==
    /\ LET end_date == now + tz
           start_date == end_date - days_back * SlotsPerDay
           selected == WindowRows(actual_trades, start_date, end_date, us)
       IN \E rows \in OrderByCreatedAsc(selected) :
              LET trades == [i \in 1..Len(rows) |-> TradeTuple(rows[i])]
              IN ret' = [op |-> "analyze_trading_performance",
                         days_back |-> days_back, us |-> us, at |-> now,
                         result |-> PerformanceResult(trades, start_date, end_date),
                         balances |-> Replay(ReplayStart, trades)]
    /\ UNCHANGED <<stats_call, now, tz, trading_logs, actual_trades, portfolio_snapshots,
                   snapshot_seq, self_reflections, last_upsert, log_calls>>

--------------------------------------------------------------------------
(* Migration importer: migrate_from_json.  A file is missing or a sequence  *)
(* of lines, a line a sequence of tokens that ends with the newline (10).    *)

\* str.strip(): without the white space (blank 32, newline 10) at both ends
RECURSIVE LStrip(_)
LStrip(t) == IF t # <<>> /\ Head(t) \in {10, 32} THEN LStrip(Tail(t)) ELSE t

RECURSIVE RStrip(_)
RStrip(t) ==
    IF t # <<>> /\ t[Len(t)] \in {10, 32} THEN RStrip(SubSeq(t, 1, Len(t) - 1)) ELSE t

Strip(t) == RStrip(LStrip(t))

\* The loop over the lines, to its end or to the first exception: the rows
\* of trading_logs, the save_analysis_log calls made and the exception caught.
\* Every save_analysis_log commits on its own connection.
RECURSIVE MigrateLines_SkipBad(_, _, _)
MigrateLines_SkipBad(lines, logs, calls) ==
    IF lines = <<>> THEN [logs |-> logs, calls |-> calls, error |-> "none"]
    ELSE LET line == Strip(Head(lines))
             data == JsonLoads(line)
             timestamp == Get(data.val, "timestamp", IsoFormat(now + tz, 1))
         IN IF line = <<>> \/ ~data.ok \/ data.kind # "dict"
            THEN MigrateLines_SkipBad(Tail(lines), logs, calls)
            ELSE IF timestamp = None
            THEN MigrateLines_SkipBad(Tail(lines), logs, calls)
            ELSE MigrateLines_SkipBad(Tail(lines),
                     Append(logs, AnalysisLogRow(Len(logs) + 1,
                                      Get(data.val, "market_data", <<>>),
                                      Get(data.val, "ai_analysis", <<>>),
                                      timestamp, "enhanced")),
                     Append(calls, [market_data |-> Get(data.val, "market_data", <<>>),
                                    ai_analysis |-> Get(data.val, "ai_analysis", <<>>),
                                    timestamp |-> timestamp]))

RECURSIVE MigrateLines(_, _, _)
MigrateLines(lines, logs, calls) ==
    IF lines = <<>> THEN [logs |-> logs, calls |-> calls, error |-> "none"]
    ELSE LET line == Strip(Head(lines))
             data == JsonLoads(line)
             timestamp == Get(data.val, "timestamp", IsoFormat(now + tz, 1))
         IN IF line = <<>> THEN MigrateLines(Tail(lines), logs, calls)
            ELSE IF ~data.ok
            THEN [logs |-> logs, calls |-> calls, error |-> "JSONDecodeError"]
            ELSE IF data.kind # "dict"
            THEN [logs |-> logs, calls |-> calls, error |-> "AttributeError"]
            ELSE IF timestamp = None     \* timestamp TEXT NOT NULL
            THEN [logs |-> logs, calls |-> calls, error |-> "IntegrityError"]
            ELSE MigrateLines(Tail(lines),
                     Append(logs, AnalysisLogRow(Len(logs) + 1,
                                      Get(data.val, "market_data", <<>>),
                                      Get(data.val, "ai_analysis", <<>>),
                                      timestamp, "enhanced")),
                     Append(calls, [market_data |-> Get(data.val, "market_data", <<>>),
                                    ai_analysis |-> Get(data.val, "ai_analysis", <<>>),
                                    timestamp |-> timestamp]))

\* migrate_from_json(json_file_path): open() raises FileNotFoundError for a
\* missing file; both handlers print and return.  The model bounds the store
\* and runs no import directly after an import.
MigrateFromJson(file) ==
    /\ Len(trading_logs) < MaxLogs
    /\ ret.op # "migrate_from_json"
    /\ LET done == IF file.exists
                   THEN MigrateLines(file.lines, trading_logs, log_calls)
                   ELSE [logs |-> trading_logs, calls |-> log_calls,
                         error |-> "FileNotFoundError"]
       IN /\ trading_logs' = done.logs
          /\ log_calls' = done.calls
          /\ ret' = [op |-> "migrate_from_json", file |-> file,
                     before |-> trading_logs, printed |-> done.error,
                     raised |-> FALSE]
    /\ UNCHANGED <<stats_call, now, tz, actual_trades, portfolio_snapshots, snapshot_seq,
                   self_reflections, last_upsert>>

--------------------------------------------------------------------------
(* The callers' inputs *)

ProfitableFill == [price |-> 2, amount |-> 1, total_value |-> 3, fee |-> 1]

\* price, amount, total_value, fee of a trade: total_value - amount * price is
\* positive, zero and negative
Fills ==
    {ProfitableFill,
     [price |-> 2, amount |-> 2, total_value |-> 4, fee |-> 0],
     [price |-> 1, amount |-> 3, total_value |-> 2, fee |-> 1]}

TradeTypes == {"buy", "sell"}

\* The calendar dates a caller asks for: from before the first day to the last
Dates == {<<d>> : d \in (DayOf(Epoch) - 1)..DayOf(Epoch + MaxTicks)}

\* An executed sell of any fill, an executed buy, or a rejected order (a business
\* failure, with its error message) that would have been profitable
TradeInputs ==
    {[trade_type |-> "sell", fill |-> f, success |-> TRUE, error_message |-> None] :
        f \in Fills}
    \cup
    {[trade_type |-> "buy", fill |-> ProfitableFill, success |-> TRUE,
      error_message |-> None]}
    \cup
    {[trade_type |-> t, fill |-> ProfitableFill, success |-> FALSE,
      error_message |-> <<1>>] : t \in TradeTypes}

DoSaveTrade ==
    \E i \in TradeInputs :
        SaveTrade(i.trade_type, i.fill.price, i.fill.amount, i.fill.total_value,
                  i.fill.fee, None, i.success, i.error_message, None, 1)

\* For the query by date, where only the date and the outcome of a trade matter:
\* an executed sell and a rejected buy
DatedTradeInputs ==
    {i \in TradeInputs :
        /\ i.fill = ProfitableFill
        /\ (i.trade_type = "sell") = i.success}

DoSaveDatedTrade ==
    \E i \in DatedTradeInputs :
        SaveTrade(i.trade_type, i.fill.price, i.fill.amount, i.fill.total_value,
                  i.fill.fee, None, i.success, i.error_message, None, 1)

DoGetTradesByDate ==
    \E start_date \in Dates, end_date \in Dates \cup {None} :
        GetTradesByDate(start_date, end_date)

\* Snapshots of two dates, each with two valuations
SnapshotDates == {<<DayOf(Epoch)>>, <<DayOf(Epoch) + 1>>}

DoSavePortfolioSnapshot ==
    \E date \in SnapshotDates, krw_balance \in {100, 200}, total_value \in {0, 300} :
        SavePortfolioSnapshot(date, krw_balance, 1, 0, total_value, 0, 0)

DoGetPortfolioHistory ==
    \E days \in 1..2 : GetPortfolioHistory(days)

\* A reflection with no field, and one with its counts and its content
ReflectionInputs ==
    {<<>>,
     [total_trades_analyzed |-> 2, successful_trades |-> 1, failed_trades |-> 1,
      reflection_content |-> <<1>>]}

DoSaveReflection ==
    \E reflection_data \in ReflectionInputs : SaveReflection(reflection_data, 1)

\* The payloads of a decision cycle: a full one and one with the price and the
\* decision alone
LogInputs ==
    {[market_data |->
          [current_price |-> 5,
           investment_status |->
               [krw_balance |-> 7, btc_balance |-> 1, total_portfolio_value |-> 9],
           technical_indicators |-> [rsi |-> 3],
           fear_greed_index |-> <<4>>],
      ai_analysis |-> [decision |-> "buy", reason |-> "dip", confidence |-> "high"]],
     [market_data |-> [current_price |-> 6],
      ai_analysis |-> [decision |-> "hold"]]}

\* The caller-supplied timestamps of the logs, and those a caller asks the
\* market context of: these, one before them all and one between them
LogTimestamps == {IsoFormat(Epoch, 0), IsoFormat(Epoch + SlotsPerDay, 0)}

QueryTimestamps ==
    LogTimestamps \cup {IsoFormat(Epoch - 1, 0), IsoFormat(Epoch + 1, 0)}

DoSaveAnalysisLog ==
    \E i \in LogInputs, timestamp \in LogTimestamps :
        SaveAnalysisLog(i.market_data, i.ai_analysis, timestamp, "enhanced")

\* For the decision statistics, where only the label of a log matters
DoSaveLabelledLog ==
    \E i \in LogInputs :
        SaveAnalysisLog(i.market_data, i.ai_analysis, IsoFormat(now + tz, 1), "enhanced")

DoGetRecentLogs ==
    \E limit \in 1..MaxLogs : GetRecentLogs(limit)

DoGetLogsByDateRange ==
    \E start_date \in Dates, end_date \in Dates :
        GetLogsByDateRange(start_date, end_date)

DoGetRecentReflections ==
    \E limit \in 1..2 : GetRecentReflections(limit)

DoGetMarketContext ==
    \E timestamp \in QueryTimestamps : GetMarketContext(timestamp)

\* The objects of a legacy log: with and without a timestamp
LegacyRecords ==
    {[market_data |-> [current_price |-> 5],
      ai_analysis |-> [decision |-> "buy"],
      timestamp |-> IsoFormat(Epoch - 1, 0)],
     [market_data |-> [current_price |-> 6],
      ai_analysis |-> [decision |-> "hold"]]}

\* The lines of a legacy file: an object, a blank line, a cut-off object, an
\* array, and an object whose timestamp is null
LegacyLines ==
    {DumpsDict(d) \o <<10>> : d \in LegacyRecords}
        \cup {<<32, 10>>, <<123, 10>>, <<91, 1001, 93, 10>>,
              DumpsDict([timestamp |-> None]) \o <<10>>}

LegacyFiles ==
    {[exists |-> FALSE]}
        \cup {[exists |-> TRUE, lines |-> l] :
                 l \in UNION {[1..n -> LegacyLines] : n \in 0..MaxFileLines}}

DoMigrateFromJson == \E file \in LegacyFiles : MigrateFromJson(file)

\* For the store as a whole, where only the tables written matter: a file of
\* at most one line, and the snapshot of the day
DoMigrateShortFile ==
    \E file \in {f \in LegacyFiles : f.exists => Len(f.lines) <= 1} :
        MigrateFromJson(file)

DoSaveTodaysSnapshot ==
    \E krw_balance \in {100, 200} :
        SavePortfolioSnapshot(StrfDate(now + tz), krw_balance, 1, 0, 300, 0, 0)

DoAnalyzeTradingPerformance ==
    \E days_back \in 1..MaxDaysBack, us \in Micros :
        AnalyzeTradingPerformance(days_back, us)

--------------------------------------------------------------------------
(* Specifications *)

\* The trade ledger and the performance analyzer
NextTrades ==
    \/ Tick
    \/ DoSaveTrade
    \/ GetTradingStats
    \/ DoAnalyzeTradingPerformance

SpecTrades == Init /\ [][NextTrades]_vars

\* The trade ledger and the query by date
NextTradesByDate ==
    \/ Tick
    \/ DoSaveDatedTrade
    \/ DoGetTradesByDate

SpecTradesByDate == Init /\ [][NextTradesByDate]_vars

\* The portfolio snapshots, among writes to another table and within one slot
NextSnapshots ==
    \/ InitDatabase
    \/ DoSavePortfolioSnapshot
    \/ DoGetPortfolioHistory
    \/ DoSaveDatedTrade

SpecSnapshots == Init /\ [][NextSnapshots]_vars

\* A database file an earlier version of the program has left a log in: its
\* market_data_json is no JSON document
LegacyLog ==
    [id |-> 1,
     timestamp |-> IsoFormat(Epoch, 0),
     current_price |-> 4,
     krw_balance |-> 0,
     btc_balance |-> 0,
     total_portfolio_value |-> 0,
     investment_status_json |-> DumpsDict(<<>>),
     ai_decision |-> "sell",
     ai_reason |-> "",
     ai_confidence |-> "",
     ai_analysis_full_json |-> DumpsDict(<<>>),
     market_data_json |-> <<39>>,
     analysis_type |-> "basic",
     created_at |-> CurrentTimestamp(Epoch - SlotsPerDay)]

InitExisting ==
    /\ now = Epoch
    /\ tz \in TzOffsets
    /\ trading_logs \in {<<>>, <<LegacyLog>>}
    /\ actual_trades = <<>>
    /\ portfolio_snapshots = {}
    /\ snapshot_seq = 0
    /\ self_reflections = <<>>
    /\ last_upsert = <<>>
    /\ log_calls = <<>>
    /\ stats_call = [pc |-> "idle"]
    /\ ret = [op |-> "init_database"]

\* The analysis logs and the queries on them
NextLogs ==
    \/ Tick
    \/ DoSaveAnalysisLog
    \/ DoGetRecentLogs
    \/ DoGetMarketContext

SpecLogs == InitExisting /\ [][NextLogs]_vars

\* The decision statistics, among trade writes and within one slot
NextStats ==
    \/ DoSaveLabelledLog
    \/ DoSaveDatedTrade
    \/ GetTradingStats

SpecStats == Init /\ [][NextStats]_vars

\* The importer, on an empty store and after direct writes
NextMigrate ==
    \/ DoMigrateFromJson
    \/ DoSaveLabelledLog

SpecMigrate == Init /\ [][NextMigrate]_vars

\* A reader in get_trading_stats beside the save_trade calls of another process
NextConcurrent ==
    \/ StatsSelectTotalTrades
    \/ StatsSelectTradeCounts
    \/ StatsSelectTotalFee
    \/ StatsSelectDecisions
    \/ DoSaveTrade

SpecConcurrent == Init /\ [][NextConcurrent]_vars

\* The five writers, schema re-initialisation and a query
NextStore ==
    \/ InitDatabase
    \/ DoSaveLabelledLog
    \/ DoSaveDatedTrade
    \/ DoSaveTodaysSnapshot
    \/ DoSaveReflection
    \/ DoMigrateShortFile
    \/ GetTradingStats

SpecStore == Init /\ [][NextStore]_vars

\* Every operation of the store
Next ==
    \/ Tick
    \/ InitDatabase
    \/ DoSaveAnalysisLog
    \/ DoSaveTrade
    \/ DoSavePortfolioSnapshot
    \/ DoSaveReflection
    \/ DoGetRecentLogs
    \/ DoGetLogsByDateRange
    \/ DoGetTradesByDate
    \/ DoGetPortfolioHistory
    \/ GetTradingStats
    \/ DoAnalyzeTradingPerformance
    \/ DoGetRecentReflections
    \/ DoGetMarketContext
    \/ DoMigrateFromJson

Spec == InitExisting /\ [][Next]_vars

--------------------------------------------------------------------------
(* What the claims speak of *)

\* The instant a stored creation timestamp denotes (UTC)
InstantOf(created_at) == created_at[1] * SlotsPerDay + created_at[3]

\* The successful trades created in the window [at - days_back days, at]; the
\* stored timestamp has lost its fraction, and a trade created in the slot the
\* window starts in counts as in the window
TradesInWindow(at, days_back) ==
    LET start == at - days_back * SlotsPerDay
    IN {r \in Rows(actual_trades) :
           /\ r.success = 1
           /\ start <= InstantOf(r.created_at)
           /\ InstantOf(r.created_at) <= at}

SellsOf(S) == {r \in S : r.trade_type = "sell"}

ProfitOf(r) == r.total_value - r.amount * r.price

RECURSIVE SumProfit(_)
SumProfit(S) ==
    IF S = {} THEN 0
    ELSE LET r == CHOOSE x \in S : TRUE IN ProfitOf(r) + SumProfit(S \ {r})

Analyzed == ret.op = "analyze_trading_performance"

\* The table without the trades written with success=False
WithoutFailed(table) == SelectSeq(table, LAMBDA r : r.success # 0)

\* C2: a trade written with success=False contributes nothing to the counts
\* and the fee sum of get_trading_stats, nor to the counts and the profit of
\* analyze_trading_performance: each result is the one the store without
\* these trades gives
C2_FailedTradesExcluded ==
    /\ ret.op = "get_trading_stats" =>
          LET clean == TradingStats(WithoutFailed(actual_trades), trading_logs)
          IN /\ ret.result.total_trades = clean.total_trades
             /\ ret.result.buy_count = clean.buy_count
             /\ ret.result.sell_count = clean.sell_count
             /\ ret.result.total_fee = clean.total_fee
    /\ Analyzed =>
          LET end_date == now + tz
              start_date == end_date - ret.days_back * SlotsPerDay
              selected == WindowRows(WithoutFailed(actual_trades), start_date,
                                     end_date, ret.us)
          IN \E rows \in OrderByCreatedAsc(selected) :
                LET clean == PerformanceResult(
                                 [i \in 1..Len(rows) |-> TradeTuple(rows[i])],
                                 start_date, end_date)
                IN /\ ret.result.total_trades = clean.total_trades
                   /\ ret.result.successful_trades = clean.successful_trades
                   /\ ret.result.failed_trades = clean.failed_trades
                   /\ ret.result.total_profit_loss = clean.total_profit_loss

\* C2's case: statistics taken of a store that holds an executed trade and a
\* rejected one count the executed trade alone
C2_Witness ==
    /\ ret.op = "get_trading_stats"
    /\ ret.result.total_trades = 1
    /\ Len(actual_trades) = 2
    /\ \E i \in 1..2 : actual_trades[i].success = 0 /\ actual_trades[i].fee > 0

\* C3: over a non-empty window total_trades is the number of the successful
\* sell trades the analysis loaded (buys are not counted) and win_rate is
\* successful_trades / total_trades * 100
C3_TotalTradesCountsSells ==
    (Analyzed /\ "trades_data" \in DOMAIN ret.result) =>
        LET sells == {i \in 1..Len(ret.result.trades_data) :
                         Col(ret.result.trades_data[i], 2) = "sell"}
        IN /\ ret.result.total_trades = Cardinality(sells)
           /\ Cardinality(sells) > 0 =>
                  FracEq(ret.result.win_rate,
                         Frac(ret.result.successful_trades * 100, Cardinality(sells)))

\* C4: total_profit_loss is the sum of total_value - amount * price over
\* exactly the successful sell trades created in the window
C4_ProfitSumsSellsInWindow ==
    Analyzed =>
        ret.result.total_profit_loss =
            SumProfit(SellsOf(TradesInWindow(now, ret.days_back)))

\* C5: every successful sell trade created in the window is classified once,
\* as successful when its profit is > 0 and as failed otherwise, and no buy is
\* classified
C5_SellsClassifiedOnce ==
    Analyzed =>
        LET sells == SellsOf(TradesInWindow(now, ret.days_back))
        IN /\ ret.result.successful_trades =
                  Cardinality({r \in sells : ProfitOf(r) > 0})
           /\ ret.result.failed_trades =
                  Cardinality({r \in sells : ProfitOf(r) <= 0})
           /\ ret.result.successful_trades + ret.result.failed_trades =
                  Cardinality(sells)

\* C6: when no successful trade was created in the window, the result is
\* zero-filled and carries the formatted bounds of the window
C6_EmptyWindowZeroFilled ==
    (Analyzed /\ TradesInWindow(now, ret.days_back) = {}) =>
        /\ ret.result.total_trades = 0
        /\ ret.result.total_profit_loss = 0
        /\ FracEq(ret.result.win_rate, Frac(0, 1))
        /\ ret.result.successful_trades = 0
        /\ ret.result.failed_trades = 0
        /\ "analysis_period" \in DOMAIN ret.result
        /\ ret.result.analysis_period # <<>>

\* C9: get_trades_by_date(date) returns exactly the trades, successful or not,
\* whose creation timestamp falls on that calendar date, and
\* get_trades_by_date(start, end) exactly those created on a date d with
\* start <= d <= end; each trade comes once and no trade comes before one
\* created later
C9_TradesOnDates ==
    ret.op = "get_trades_by_date" =>
        LET day(r) == r.created_at[1]
            first == ret.start_date[1]
            wanted == IF ret.end_date = None
                      THEN {r \in Rows(actual_trades) : day(r) = first}
                      ELSE {r \in Rows(actual_trades) :
                               first <= day(r) /\ day(r) <= ret.end_date[1]}
        IN /\ Rows(ret.rows) = wanted
           /\ Len(ret.rows) = Cardinality(wanted)
           /\ \A i, j \in 1..Len(ret.rows) :
                  i < j => InstantOf(ret.rows[i].created_at) >=
                           InstantOf(ret.rows[j].created_at)

\* C9's case: the single-date form returns a rejected trade of that date and
\* leaves out a trade created on the day after
C9_Witness ==
    /\ ret.op = "get_trades_by_date"
    /\ ret.end_date = None
    /\ \E i \in 1..Len(ret.rows) : ret.rows[i].success = 0
    /\ \E r \in Rows(actual_trades) : r.created_at[1] = ret.start_date[1] + 1

\* C1: portfolio_snapshots holds at most one row per date, and for every date
\* ever written that one row carries the values of the last
\* save_portfolio_snapshot call for the date
C1_OneSnapshotPerDate ==
    /\ \A r1, r2 \in portfolio_snapshots : r1.date = r2.date => r1 = r2
    /\ \A d \in DOMAIN last_upsert :
          \E r \in portfolio_snapshots :
              /\ r.date = d
              /\ r.krw_balance = last_upsert[d].krw_balance
              /\ r.btc_balance = last_upsert[d].btc_balance
              /\ r.btc_avg_price = last_upsert[d].btc_avg_price
              /\ r.total_value = last_upsert[d].total_value
              /\ r.profit_loss = last_upsert[d].profit_loss
              /\ r.profit_loss_percent = last_upsert[d].profit_loss_percent

\* C1's case: a date was written twice with different values, a trade was
\* written too, and the table holds the second write's row alone for the date
C1_Witness ==
    /\ ret.op = "save_portfolio_snapshot"
    /\ snapshot_seq = 2
    /\ Cardinality(portfolio_snapshots) = 1
    /\ \E r \in portfolio_snapshots : r.id = 2 /\ r.krw_balance = 200
    /\ actual_trades # <<>>

\* The arguments of the call that wrote a row of trading_logs (the rows the
\* file held before come first)
CallOf(r) == log_calls[r.id - (Len(trading_logs) - Len(log_calls))]

WrittenByCall(r) == r.id > Len(trading_logs) - Len(log_calls)

\* C7: get_recent_logs(1) returns the entry the last save_analysis_log call
\* wrote, its decision, reason, confidence and decoded blobs being the call's
\* inputs, and get_recent_logs(n) lists the entries newest-written first
C7_RecentLogsNewestWrittenFirst ==
    (ret.op = "get_recent_logs" /\ log_calls # <<>>) =>
        LET top == ret.rows[1]
            last == log_calls[Len(log_calls)]
        IN /\ top.id = Len(trading_logs)
           /\ top.ai_decision = Get(last.ai_analysis, "decision", "")
           /\ top.ai_reason = Get(last.ai_analysis, "reason", "")
           /\ top.ai_confidence = Get(last.ai_analysis, "confidence", "")
           /\ JsonLoads(top.ai_analysis_full_json).val = last.ai_analysis
           /\ JsonLoads(top.market_data_json).val = last.market_data
           /\ JsonLoads(top.investment_status_json).val =
                  Get(last.market_data, "investment_status", <<>>)
           /\ \A i, j \in 1..Len(ret.rows) : i < j => ret.rows[i].id > ret.rows[j].id

\* C8: ai_decisions of get_trading_stats maps every decision label to the
\* number of save_analysis_log calls with that label and holds no label of
\* count 0, whatever trades were written
C8_DecisionCounts ==
    ret.op = "get_trading_stats" =>
        LET counts == ret.result.ai_decisions
            label(c) == Get(c.ai_analysis, "decision", "")
        IN /\ \A i \in 1..Len(log_calls) : label(log_calls[i]) \in DOMAIN counts
           /\ \A d \in DOMAIN counts :
                  /\ counts[d] = Cardinality({i \in 1..Len(log_calls) :
                                                 label(log_calls[i]) = d})
                  /\ counts[d] > 0

\* C8's case: statistics taken after two logs of one label, an executed trade
\* and a rejected one
C8_Witness ==
    /\ ret.op = "get_trading_stats"
    /\ DOMAIN ret.result.ai_decisions = {"buy"}
    /\ ret.result.ai_decisions["buy"] = 2
    /\ \E r \in Rows(actual_trades) : r.success = 0
    /\ \E r \in Rows(actual_trades) : r.success = 1

\* C10: get_market_context(q) returns the empty mapping exactly when no log has
\* a timestamp <= q; otherwise it returns the price and the timestamp of a log
\* whose timestamp is the greatest among those <= q, with the indicators and
\* the fear/greed series the log was written with, and price and timestamp
\* alone when the log's market-data blob is no JSON document
C10_MarketContext ==
    ret.op = "get_market_context" =>
        LET q == InstantOf(ret.timestamp)
            older == {r \in Rows(trading_logs) : InstantOf(r.timestamp) <= q}
        IN /\ (DOMAIN ret.result = {}) <=> (older = {})
           /\ older # {} =>
                \E r \in older :
                    /\ \A o \in older : InstantOf(o.timestamp) <= InstantOf(r.timestamp)
                    /\ ret.result.timestamp = r.timestamp
                    /\ ret.result.price = r.current_price
                    /\ IF WrittenByCall(r)
                       THEN /\ DOMAIN ret.result =
                                  {"price", "technical_indicators", "fear_greed",
                                   "timestamp"}
                            /\ ret.result.technical_indicators =
                                  Get(CallOf(r).market_data, "technical_indicators", <<>>)
                            /\ ret.result.fear_greed =
                                  Get(CallOf(r).market_data, "fear_greed_index", <<>>)
                       ELSE DOMAIN ret.result = {"price", "timestamp"}

\* C10's case: the log selected is the one whose blob does not decode, while a
\* log with a later timestamp than asked for is in the store
C10_Witness ==
    /\ ret.op = "get_market_context"
    /\ DOMAIN ret.result = {"price", "timestamp"}
    /\ \E r \in Rows(trading_logs) : InstantOf(r.timestamp) > InstantOf(ret.timestamp)

\* A line with something other than white space on it
NonBlankLine(l) == \E i \in 1..Len(l) : l[i] \notin {10, 32}

\* A line that holds one of the objects of the legacy log, and the object
GoodLine(l) == \E d \in LegacyRecords : l = DumpsDict(d) \o <<10>>

RecordOf(l) == CHOOSE d \in LegacyRecords : l = DumpsDict(d) \o <<10>>

\* The place of the first line that fails among the non-blank lines nb, or
\* Len(nb) + 1 when none fails
FirstFailing(nb) ==
    IF \A i \in 1..Len(nb) : GoodLine(nb[i]) THEN Len(nb) + 1
    ELSE CHOOSE k \in 1..Len(nb) :
             ~GoodLine(nb[k]) /\ \A i \in 1..(k - 1) : GoodLine(nb[i])

\* C11: migrate_from_json on a missing file writes no row and raises nothing;
\* on a file whose k-th non-blank line fails to decode or to store, the k-1
\* non-blank lines before it are persisted as one analysis log each, in file
\* order and after the rows the store held, no later line is persisted, and
\* the error is printed without an exception reaching the caller
C11_ImportStopsAtFailingLine ==
    ret.op = "migrate_from_json" =>
        /\ ~ret.raised
        /\ ~ret.file.exists => (trading_logs = ret.before /\ ret.printed # "none")
        /\ ret.file.exists =>
              LET nb == SelectSeq(ret.file.lines, NonBlankLine)
                  k == FirstFailing(nb)
                  n0 == Len(ret.before)
              IN /\ Len(trading_logs) = n0 + k - 1
                 /\ SubSeq(trading_logs, 1, n0) = ret.before
                 /\ \A i \in 1..(k - 1) :
                        LET d == RecordOf(nb[i])
                            r == trading_logs[n0 + i]
                        IN /\ r.id = n0 + i
                           /\ r.current_price = d.market_data.current_price
                           /\ r.ai_decision = d.ai_analysis.decision
                           /\ r.timestamp = IF "timestamp" \in DOMAIN d
                                            THEN d.timestamp
                                            ELSE IsoFormat(now + tz, 1)
                 /\ (k <= Len(nb)) <=> (ret.printed # "none")

\* C11's case: an import into a store with a row that persisted a line, then
\* hit a failing line with a decodable line after it
C11_Witness ==
    /\ ret.op = "migrate_from_json"
    /\ ret.file.exists
    /\ ret.printed # "none"
    /\ ret.before # <<>>
    /\ Len(trading_logs) > Len(ret.before)
    /\ Len(SelectSeq(ret.file.lines, GoodLine)) > Len(trading_logs) - Len(ret.before)

\* A table that holds the rows it held, unchanged and in their places, and
\* perhaps more after them
Extends(new, old) == Len(old) <= Len(new) /\ SubSeq(new, 1, Len(old)) = old

\* C12: trading_logs, actual_trades and self_reflections are append-only: no
\* step of the store (writes, schema re-initialisation, snapshot upserts,
\* queries, migration) removes or changes a row of them, and every write
\* operation changes its own table alone
C12_AppendOnly ==
    [][/\ Extends(trading_logs', trading_logs)
       /\ Extends(actual_trades', actual_trades)
       /\ Extends(self_reflections', self_reflections)
       /\ ret'.op \in {"save_analysis_log", "migrate_from_json"} =>
              UNCHANGED <<actual_trades, portfolio_snapshots, snapshot_seq,
                          self_reflections>>
       /\ ret'.op = "save_trade" =>
              UNCHANGED <<trading_logs, portfolio_snapshots, snapshot_seq,
                          self_reflections>>
       /\ ret'.op = "save_portfolio_snapshot" =>
              UNCHANGED <<trading_logs, actual_trades, self_reflections>>
       /\ ret'.op = "save_reflection" =>
              UNCHANGED <<trading_logs, actual_trades, portfolio_snapshots,
                          snapshot_seq>>
       /\ ret'.op \in {"init_database", "get_trading_stats"} =>
              UNCHANGED <<trading_logs, actual_trades, portfolio_snapshots,
                          snapshot_seq, self_reflections>>]_vars

\* C12's case: the schema re-initialised on a store that holds logs, trades
\* and a reflection, after a snapshot upsert replaced the row of its date
C12_Witness ==
    /\ ret.op = "init_database"
    /\ trading_logs # <<>>
    /\ actual_trades # <<>>
    /\ self_reflections # <<>>
    /\ snapshot_seq >= 2
    /\ Cardinality(portfolio_snapshots) = 1

\* The balances after the trades replayed, a buy moving total_value / price
\* of BTC and total_value of KRW, a sell amount of BTC and total_value of KRW
RECURSIVE BalancesByTotalValue(_, _)
BalancesByTotalValue(acc, trades) ==
    IF trades = <<>> THEN acc
    ELSE LET r == actual_trades[Head(trades)[1]]
             next == IF r.trade_type = "buy"
                     THEN [btc_balance |->
                               FracAdd(acc.btc_balance, Frac(r.total_value, r.price)),
                           krw_balance |-> acc.krw_balance - r.total_value]
                     ELSE [btc_balance |->
                               FracSub(acc.btc_balance, Frac(r.amount, 1)),
                           krw_balance |-> acc.krw_balance + r.total_value]
         IN BalancesByTotalValue(next, Tail(trades))

\* C13: in the replay of analyze_trading_performance, from 0 BTC and 1,000,000
\* KRW, every buy replayed adds total_value / price to the BTC balance and
\* takes total_value (not amount) from the KRW balance
C13_BuyMovesTotalValue ==
    (Analyzed /\ "trades_data" \in DOMAIN ret.result) =>
        LET want == BalancesByTotalValue(
                        [btc_balance |-> Frac(0, 1), krw_balance |-> 1000000],
                        ret.result.trades_data)
        IN /\ FracEq(ret.balances.btc_balance, want.btc_balance)
           /\ ret.balances.krw_balance = want.krw_balance

\* The ids of the trades a call of analyze_trading_performance replayed
ReplayedIds ==
    IF "trades_data" \in DOMAIN ret.result
    THEN {ret.result.trades_data[i][1] : i \in 1..Len(ret.result.trades_data)}
    ELSE {}

\* C14: analyze_trading_performance(days_back) replays a successful trade if
\* and only if it was created in [now - days_back days, now], and replays the
\* trades in non-decreasing order of creation
C14_ReplaysExactlyTheWindow ==
    Analyzed =>
        /\ ReplayedIds = {r.id : r \in TradesInWindow(ret.at, ret.days_back)}
        /\ "trades_data" \in DOMAIN ret.result =>
              \A i, j \in 1..Len(ret.result.trades_data) :
                  i < j => InstantOf(ret.result.trades_data[i][11])
                               <= InstantOf(ret.result.trades_data[j][11])

\* C15: with trades of type buy and sell alone, every result of
\* get_trading_stats has total_trades = buy_count + sell_count and is the
\* statistics of one state the store was in, also when another process
\* commits a save_trade between the SELECT statements of the call
C15_StatsOfOneState ==
    ret.op = "get_trading_stats" =>
        /\ ret.result.total_trades = ret.result.buy_count + ret.result.sell_count
        /\ \E n \in 0..Len(actual_trades), m \in 0..Len(trading_logs) :
               ret.result = TradingStats(SubSeq(actual_trades, 1, n),
                                         SubSeq(trading_logs, 1, m))

====
